---- MODULE Spec2Model ----
(***************************************************************************)
(* FocusAreaContextExtractor (codewhispererChat/editor/context/focusArea). *)
(*                                                                         *)
(* extract(editor) is modelled as a state machine whose steps are the      *)
(* statements of extract and the iterations of the two range loops         *)
(* (trimRangeAccordingToLimits, getExtendedCodeBlockRange).                *)
(*                                                                         *)
(* A document is the sequence of its line lengths; a text returned by      *)
(* document.getText(range) is the slice [from, to) of the document's       *)
(* character offsets, line breaks counting one character.  A symbol name   *)
(* is a sequence of characters.                                            *)
(***************************************************************************)
EXTENDS Integers, Sequences, FiniteSets

VARIABLES
    editor,                 \* the TextEditor passed to extract (input)
    finderNames,            \* what findNamesWithInExtent resolves to (input)
    pc,                     \* position inside extract
    error,                  \* the exception extract rejected with, or "none"
    importantRange,         \* local of extract / of the range loops
    names,                  \* result of findNamesInRange
    simpleNames,            \* prepareSimpleNames(names)[0]
    simpleNamesWasLonger,   \* prepareSimpleNames(names)[1]
    usedFullyQualifiedNames,\* prepareFqns(names)[0]
    fqnsWasLonger,          \* prepareFqns(names)[1]
    addLineBefore,          \* local of getExtendedCodeBlockRange
    codeBlock,              \* local of extract
    extendedCodeBlockRange, \* local of extract
    result,                 \* the FocusAreaContext returned
    trimInput,              \* history: argument of trimRangeAccordingToLimits
    trimSteps,              \* history: iterations of the trim loop
    expandInput,            \* history: argument of getExtendedCodeBlockRange
    expandSteps,            \* history: iterations of the expand loop
    requestedLines          \* history: line indices passed to document.lineAt

vars == <<editor, finderNames, pc, error, importantRange, names, simpleNames,
          simpleNamesWasLonger, usedFullyQualifiedNames, fqnsWasLonger,
          addLineBefore, codeBlock, extendedCodeBlockRange, result,
          trimInput, trimSteps, expandInput, expandSteps, requestedLines>>

-----------------------------------------------------------------------------
(* Program constants *)

focusAreaCharLimit == 200
maxUsedFullyQualifiedNamesLength == 25
maxSimpleNamesLength == 100

(* Bounds of the checked inputs *)

\* most lines of a document
MaxLines == 5
\* most names a list has beyond the cap that applies to it
MaxExtraNames == 2
\* most symbols in a small usedSymbols list
MaxSmallUsed == 2

\* the line lengths documents are built from
LineLengths == {0, 120, 450}

-----------------------------------------------------------------------------
(* vscode Position / Range / TextDocument *)

Undefined == [tag |-> "undefined"]

IsUndefined(v) == v.tag = "undefined"

Position(line, character) == [line |-> line, character |-> character]

isBefore(p, q) ==
    \/ p.line < q.line
    \/ p.line = q.line /\ p.character < q.character

\* new Range(startLine, startCharacter, endLine, endCharacter): the
\* constructor orders the two positions.
Range(startLine, startCharacter, endLine, endCharacter) ==
    LET a == Position(startLine, startCharacter)
        b == Position(endLine, endCharacter)
    IN  IF isBefore(b, a) THEN [start |-> b, end |-> a]
                          ELSE [start |-> a, end |-> b]

TextDocument(languageId, lines) ==
    [tag |-> "document", languageId |-> languageId, lines |-> lines]

lineCount(document) == Len(document.lines)

\* document.lineAt(line).range.end.character, for 0 <= line < lineCount
lineEndCharacter(document, line) == document.lines[line + 1]

RECURSIVE lineOffset(_, _)
\* offset of the first character of a line
lineOffset(document, line) ==
    IF line = 0 THEN 0
    ELSE lineOffset(document, line - 1) + document.lines[line] + 1

offsetAt(document, position) ==
    lineOffset(document, position.line) + position.character

\* getRangeText(document, range) = document.getText(range)
getRangeText(document, range) ==
    [tag |-> "text",
     from |-> offsetAt(document, range.start),
     to |-> offsetAt(document, range.end)]

\* text.length
length(text) == text.to - text.from

-----------------------------------------------------------------------------
(* trimRangeAccordingToLimits *)

\* a variant of the while condition that stops at any single-line range
trimLoopConditionLinesOnly(document, range) ==
    /\ length(getRangeText(document, range)) > focusAreaCharLimit
    /\ range.start.line # range.end.line

\* the while condition, lines 109-112
trimLoopCondition(document, range) ==
    /\ length(getRangeText(document, range)) > focusAreaCharLimit
    /\ \/ range.start.line # range.end.line
       \/ /\ range.start.line = range.end.line
          /\ range.start.character # range.end.character

\* the loop body's new range, lines 117-122
trimOneLine(document, range) ==
    Range(range.start.line,
          range.start.character,
          range.end.line - 1,
          lineEndCharacter(document, range.end.line - 1))

(* getExtendedCodeBlockRange *)

\* the while condition, lines 80-81
expandLoopCondition(document, range) ==
    /\ length(getRangeText(document, range)) < focusAreaCharLimit
    /\ \/ range.start.line # 0
       \/ range.end.line # lineCount(document)

\* the first branch's new range, lines 84-89
addLineAbove(document, range) ==
    Range(range.start.line - 1,
          lineEndCharacter(document, range.start.line - 1),
          range.end.line,
          range.end.character)

\* the second branch's new range, lines 94-99
addLineBelow(document, range) ==
    Range(range.start.line,
          range.start.character,
          range.end.line + 1,
          lineEndCharacter(document, range.end.line + 1))

\* a variant that prefers the line below first
initialAddLineAfter == FALSE

\* the initial preference, line 78
initialAddLineBefore == TRUE

(* getSelectionInsideExtendedCodeBlock *)

IsCursor(selection) ==
    /\ selection.start.line = selection.end.line
    /\ selection.start.character = selection.end.character

getSelectionInsideExtendedCodeBlock(originSelection, extendedRange) ==
    IF IsCursor(originSelection) THEN Undefined
    ELSE [tag |-> "selection",
          start |-> Position(originSelection.start.line - extendedRange.start.line,
                             originSelection.start.character),
          end |-> Position(originSelection.end.line - extendedRange.start.line,
                           originSelection.end.character)]

-----------------------------------------------------------------------------
(* Strings: sequences of characters *)

WhiteSpace == {" "}

RECURSIVE trimStart(_)
trimStart(s) ==
    IF Len(s) > 0 /\ s[1] \in WhiteSpace THEN trimStart(Tail(s)) ELSE s

RECURSIVE trimEnd(_)
trimEnd(s) ==
    IF Len(s) > 0 /\ s[Len(s)] \in WhiteSpace
    THEN trimEnd(SubSeq(s, 1, Len(s) - 1))
    ELSE s

\* String.prototype.trim
trim(s) == trimEnd(trimStart(s))

Max(S) == CHOOSE m \in S : \A x \in S : x <= m

-----------------------------------------------------------------------------
(* findNamesInRange *)

SupportedLanguages ==
    {"java", "javascript", "javascriptreact", "typescriptreact", "python",
     "typescript"}

\* let names: any = {}
EmptyObject == [tag |-> "object"]

\* the switch over languageId, lines 138-156; the text replacement of line
\* 133 discards its result
findNamesInRange(languageId, found) ==
    IF languageId \in SupportedLanguages THEN found ELSE EmptyObject

-----------------------------------------------------------------------------
(* prepareFqns *)

Returned(value, wasLonger) ==
    [threw |-> FALSE, value |-> value, wasLonger |-> wasLonger]

\* reading a property of undefined
TypeError == [threw |-> TRUE, value |-> <<>>, wasLonger |-> FALSE]

\* new Map(entries): a key keeps the place of its first entry and the value
\* of its last one.  The key JSON.stringify([source, symbol]) is the pair.
mapEntries(entries) ==
    LET key(i) == <<entries[i].source, entries[i].symbol>>
        indexed == [i \in 1..Len(entries) |-> i]
        first == SelectSeq(indexed,
                     LAMBDA i : \A j \in 1..(i - 1) : key(j) # key(i))
        last(i) == Max({j \in 1..Len(entries) : key(j) = key(i)})
    IN  [k \in 1..Len(first) |->
            [key |-> key(first[k]),
             value |-> [source |-> entries[last(first[k])].source,
                        symbol |-> entries[last(first[k])].symbol]]]

\* Array.from(map.values())
mapValues(map) == [j \in 1..Len(map) |-> map[j].value]

combinedLength(name) == Len(name.source) + Len(name.symbol)

\* the place an entry of the list takes in a stable ascending sort by key
sortedPlace(keys, i) ==
    Cardinality({j \in 1..Len(keys) :
        keys[j] < keys[i] \/ (keys[j] = keys[i] /\ j <= i)})

\* the list in a stable ascending order of its entries' keys
\* (\o <<>> has TLC tabulate a function once instead of at every use)
stableSort(list, keys) ==
    LET tabulated == keys \o <<>>
        place == [i \in 1..Len(list) |-> sortedPlace(tabulated, i)] \o <<>>
    IN  [r \in 1..Len(list) |->
            list[CHOOSE i \in 1..Len(list) : place[i] = r]]

\* a variant that leaves the list in the order it has
unsortedByCombinedLength(list) == list

\* usedFullyQualifiedNames.sort(by combined length, ascending)
sortByCombinedLength(list) ==
    stableSort(list, [i \in 1..Len(list) |-> combinedLength(list[i])])

prepareFqns(n) ==
    IF IsUndefined(n) THEN Returned(<<>>, FALSE)
    ELSE IF "fullyQualified" \notin DOMAIN n THEN TypeError
    ELSE LET deduped == mapValues(mapEntries(n.fullyQualified.usedSymbols))
         IN  IF Len(deduped) > maxUsedFullyQualifiedNamesLength
             THEN Returned(SubSeq(sortByCombinedLength(deduped), 1,
                                  maxUsedFullyQualifiedNamesLength), TRUE)
             ELSE Returned(deduped, FALSE)

-----------------------------------------------------------------------------
(* prepareSimpleNames *)

\* the filter's predicate, lines 189-192
passesLengthFilter(elem) ==
    Len(trim(elem.symbol)) < 129 /\ Len(trim(elem.symbol)) > 1

\* the concat, filter and map of lines 187-195
filteredNames(used, declared) ==
    LET kept == SelectSeq(used \o declared, passesLengthFilter)
    IN  [i \in 1..Len(kept) |-> trim(kept[i].symbol)]

\* a variant that keeps every entry
allNames(list) == list

\* [...new Set(list)]: a Set iterates in insertion order
uniqueNames(list) ==
    LET indexed == [i \in 1..Len(list) |-> i]
        first == SelectSeq(indexed,
                     LAMBDA i : \A j \in 1..(i - 1) : list[j] # list[i])
    IN  [k \in 1..Len(first) |-> list[first[k]]]

\* simpleNames.sort((a, b) => a.length - b.length)
sortByLength(list) ==
    stableSort(list, [i \in 1..Len(list) |-> Len(list[i])])

\* a variant that removes from the end of the list
spliceFromEnd(list, count) == SubSeq(list, 1, Len(list) - count)

\* list.splice(0, count): what is left of the list
spliceFromStart(list, count) == SubSeq(list, count + 1, Len(list))

prepareSimpleNames(n) ==
    IF IsUndefined(n) THEN Returned(<<>>, FALSE)
    ELSE IF "simple" \notin DOMAIN n THEN TypeError
    ELSE LET filtered == filteredNames(n.simple.usedSymbols,
                                       n.simple.declaredSymbols)
         IN  IF Len(filtered) > maxSimpleNamesLength
             THEN LET unique == uniqueNames(filtered)
                  IN  IF Len(unique) > maxSimpleNamesLength
                      THEN Returned(
                               spliceFromStart(sortByLength(unique),
                                   Len(unique) - maxSimpleNamesLength), TRUE)
                      ELSE Returned(unique, TRUE)
             ELSE Returned(filtered, FALSE)

\* a variant that looks at the simple names only
withFallbackForSimpleNames(simple, fqns, block) ==
    IF Len(simple) = 0 THEN Append(simple, block) ELSE simple

\* the fallback of lines 38-40
withFallback(simple, fqns, block) ==
    IF Len(simple) = 0 /\ Len(fqns) = 0 THEN Append(simple, block) ELSE simple

-----------------------------------------------------------------------------
(* The inputs extract is checked on *)

\* the string of n characters c
Str(c, n) == [i \in 1..n |-> c]

Symbol(s) == [symbol |-> s]

Fqn(source, symbol) == [source |-> source, symbol |-> symbol]

Names(used, declared, fqns) ==
    [tag |-> "object",
     simple |-> [usedSymbols |-> used, declaredSymbols |-> declared],
     fullyQualified |-> [usedSymbols |-> fqns]]

SeqsUpTo(S, n) == UNION {[1..k -> S] : k \in 0..n}

Reverse(list) == [i \in 1..Len(list) |-> list[Len(list) + 1 - i]]

\* documents of at most MaxLines lines
Documents(languageId) ==
    {TextDocument(languageId, lines) :
        lines \in UNION {[1..n -> LineLengths] : n \in 1..MaxLines}}

\* the characters of a line that positions are drawn from: its two ends
\* and one past the limit
Characters(document, line) ==
    {c \in {0, 210, lineEndCharacter(document, line)} :
        c <= lineEndCharacter(document, line)}

\* the valid positions of a document that ranges are drawn from
Positions(document) ==
    UNION {{Position(line, c) : c \in Characters(document, line)} :
        line \in 0..(lineCount(document) - 1)}

Ranges(document) ==
    {[start |-> p, end |-> q] : <<p, q>> \in
        {pq \in Positions(document) \X Positions(document) :
            ~isBefore(pq[2], pq[1])}}

WholeDocument(document) ==
    Range(0, 0, lineCount(document) - 1,
          lineEndCharacter(document, lineCount(document) - 1))

FirstLine(document) == Range(0, 0, 0, lineEndCharacter(document, 0))

\* visibleRanges: read only when the selection is a cursor
VisibleRanges(document, selection) ==
    IF IsCursor(selection)
    THEN {<<WholeDocument(document)>>, <<FirstLine(document)>>}
    ELSE {<<WholeDocument(document)>>}

TextEditor(document, selection, visibleRanges) ==
    [document |-> document, selection |-> selection,
     visibleRanges |-> visibleRanges]

\* a few short symbols: kept, kept after trimming, too short, blank
SmallSymbols ==
    {Symbol(<<"a", "b">>), Symbol(<<" ", "a", "b", " ">>), Symbol(<<"a">>),
     Symbol(<<" ", " ">>), Symbol(<<"a", "b", "c">>)}

SmallFqns ==
    {Fqn(<<"m">>, <<"f">>), Fqn(<<"m">>, <<"g", "h">>)}

SmallNames ==
    {Names(used, declared, fqns) :
        used \in SeqsUpTo(SmallSymbols, MaxSmallUsed),
        declared \in {<<>>, <<Symbol(<<"a", "b">>)>>, <<Symbol(<<"c", "d">>)>>},
        fqns \in SeqsUpTo(SmallFqns, 2)}

\* n symbols over the given letters, lengths from 2 up, one blank-padded,
\* after a symbol that is too short and one that is too long
ManySymbols(n, letters) ==
    <<Symbol(<<"a">>), Symbol(Str("a", 129))>>
    \o [i \in 1..n |->
          Symbol(IF i = 2
                 THEN <<" ">> \o Str(letters[(i % Len(letters)) + 1],
                                     2 + ((i - 1) \div Len(letters))) \o <<" ">>
                 ELSE Str(letters[(i % Len(letters)) + 1],
                          2 + ((i - 1) \div Len(letters))))]

\* n pairs of distinct combined lengths (letters of one letter) or of
\* combined lengths shared by two pairs
ManyFqns(n, letters) ==
    [i \in 1..n |->
        Fqn(Str(letters[(i % Len(letters)) + 1], (i - 1) \div Len(letters)),
            Str("f", 1 + ((i * 7) % 3)))]

Arrangements(list) ==
    {list, Reverse(list), list \o list, Reverse(list) \o <<list[1]>> \o list}

SplitAt(list, k) ==
    [used |-> SubSeq(list, 1, k), declared |-> SubSeq(list, k + 1, Len(list))]

\* symbol lists around and above the cap of the simple names
ManySymbolLists ==
    UNION {Arrangements(ManySymbols(n, letters)) :
        n \in (maxSimpleNamesLength - 1)..(maxSimpleNamesLength + MaxExtraNames),
        letters \in {<<"a">>, <<"a", "b">>}}

\* pair lists around and above the cap of the fully qualified names
ManyFqnLists ==
    UNION {Arrangements(ManyFqns(n, letters)) :
        n \in (maxUsedFullyQualifiedNamesLength - 1)
                  ..(maxUsedFullyQualifiedNamesLength + MaxExtraNames),
        letters \in {<<"m">>, <<"m", "n">>}}

ManyNames ==
    {Names(SplitAt(list, k).used, SplitAt(list, k).declared, <<>>) :
        list \in ManySymbolLists, k \in {0, 40}}
    \cup {Names(<<>>, <<>>, fqns) : fqns \in ManyFqnLists}

NoNames == Names(<<>>, <<>>, <<>>)

Languages == SupportedLanguages \cup {"plaintext"}

\* the document the name lists are checked with
SampleDocument(languageId) == TextDocument(languageId, <<120, 450, 0>>)

-----------------------------------------------------------------------------
(* extract *)

InitLocals ==
    /\ pc = "extract"
    /\ error = "none"
    /\ importantRange = Undefined
    /\ names = Undefined
    /\ simpleNames = <<>>
    /\ simpleNamesWasLonger = FALSE
    /\ usedFullyQualifiedNames = <<>>
    /\ fqnsWasLonger = FALSE
    /\ addLineBefore = initialAddLineBefore
    /\ codeBlock = Undefined
    /\ extendedCodeBlockRange = Undefined
    /\ result = Undefined
    /\ trimInput = Undefined
    /\ trimSteps = 0
    /\ expandInput = Undefined
    /\ expandSteps = 0
    /\ requestedLines = {}

\* every document and selection, a name finder that finds nothing
InitRanges ==
    /\ \E document \in Documents("typescript") :
         \E selection \in Ranges(document) :
           \E visibleRanges \in VisibleRanges(document, selection) :
             editor = TextEditor(document, selection, visibleRanges)
    /\ finderNames = NoNames

\* every language, one document, the small name lists
InitSmallNames ==
    /\ \E languageId \in Languages :
         \E selection \in {Range(1, 0, 1, 450), Range(0, 0, 0, 120)} :
           editor = TextEditor(SampleDocument(languageId), selection,
                               <<WholeDocument(SampleDocument(languageId))>>)
    /\ finderNames \in SmallNames \cup {Undefined}

\* one language, one document, name lists around and above the caps
InitManyNames ==
    /\ editor = TextEditor(SampleDocument("java"), Range(0, 0, 0, 120),
                           <<WholeDocument(SampleDocument("java"))>>)
    /\ finderNames \in ManyNames

InitNoDocument ==
    /\ editor = TextEditor(Undefined, Range(0, 0, 0, 0), <<Range(0, 0, 0, 0)>>)
    /\ finderNames = Undefined

Init ==
    /\ InitLocals
    /\ \/ InitRanges
       \/ InitSmallNames
       \/ InitManyNames
       \/ InitNoDocument

\* lines 15-17
ExtractNoDocument ==
    /\ pc = "extract"
    /\ IsUndefined(editor.document)
    /\ result' = Undefined
    /\ pc' = "returned"
    /\ UNCHANGED <<editor, finderNames, error, importantRange, names,
                   simpleNames, simpleNamesWasLonger, usedFullyQualifiedNames,
                   fqnsWasLonger, addLineBefore, codeBlock,
                   extendedCodeBlockRange, trimInput, trimSteps, expandInput,
                   expandSteps, requestedLines>>

\* lines 19-29
ExtractFindNames ==
    /\ pc = "extract"
    /\ ~IsUndefined(editor.document)
    /\ importantRange' = IF IsCursor(editor.selection)
                         THEN editor.visibleRanges[1]
                         ELSE editor.selection
    /\ names' = findNamesInRange(editor.document.languageId, finderNames)
    /\ pc' = "prepareSimpleNames"
    /\ UNCHANGED <<editor, finderNames, error, simpleNames,
                   simpleNamesWasLonger, usedFullyQualifiedNames,
                   fqnsWasLonger, addLineBefore, codeBlock,
                   extendedCodeBlockRange, result, trimInput, trimSteps,
                   expandInput, expandSteps, requestedLines>>

\* line 31
ExtractPrepareSimpleNames ==
    /\ pc = "prepareSimpleNames"
    /\ LET r == prepareSimpleNames(names)
       IN  /\ simpleNames' = r.value
           /\ simpleNamesWasLonger' = r.wasLonger
           /\ error' = IF r.threw THEN "TypeError" ELSE error
           /\ pc' = IF r.threw THEN "rejected" ELSE "prepareFqns"
    /\ UNCHANGED <<editor, finderNames, importantRange, names,
                   usedFullyQualifiedNames, fqnsWasLonger, addLineBefore,
                   codeBlock, extendedCodeBlockRange, result, trimInput,
                   trimSteps, expandInput, expandSteps, requestedLines>>

\* line 32, and the call of line 34
ExtractPrepareFqns ==
    /\ pc = "prepareFqns"
    /\ LET r == prepareFqns(names)
       IN  /\ usedFullyQualifiedNames' = r.value
           /\ fqnsWasLonger' = r.wasLonger
           /\ error' = IF r.threw THEN "TypeError" ELSE error
           /\ pc' = IF r.threw THEN "rejected" ELSE "trim"
    /\ trimInput' = importantRange
    /\ trimSteps' = 0
    /\ UNCHANGED <<editor, finderNames, importantRange, names, simpleNames,
                   simpleNamesWasLonger, addLineBefore, codeBlock,
                   extendedCodeBlockRange, result, expandInput, expandSteps,
                   requestedLines>>

\* one iteration of trimRangeAccordingToLimits, lines 108-123
TrimLoop ==
    /\ pc = "trim"
    /\ trimLoopCondition(editor.document, importantRange)
    /\ importantRange.end.line # 0
    /\ requestedLines' = requestedLines \cup {importantRange.end.line - 1}
    /\ importantRange' = trimOneLine(editor.document, importantRange)
    /\ trimSteps' = trimSteps + 1
    /\ UNCHANGED <<editor, finderNames, pc, error, names, simpleNames,
                   simpleNamesWasLonger, usedFullyQualifiedNames,
                   fqnsWasLonger, addLineBefore, codeBlock,
                   extendedCodeBlockRange, result, trimInput, expandInput,
                   expandSteps>>

\* the loop's exit or break, line 125; then lines 34-36 up to the call of
\* getExtendedCodeBlockRange, whose parameter importantRange now is
TrimReturn ==
    /\ pc = "trim"
    /\ \/ ~trimLoopCondition(editor.document, importantRange)
       \/ importantRange.end.line = 0
    /\ codeBlock' = getRangeText(editor.document, importantRange)
    /\ addLineBefore' = initialAddLineBefore
    /\ expandInput' = importantRange
    /\ expandSteps' = 0
    /\ pc' = "expand"
    /\ UNCHANGED <<editor, finderNames, error, importantRange, names,
                   simpleNames, simpleNamesWasLonger, usedFullyQualifiedNames,
                   fqnsWasLonger, extendedCodeBlockRange, result, trimInput,
                   trimSteps, requestedLines>>

\* an iteration of getExtendedCodeBlockRange taking the first branch,
\* lines 83-92
ExpandAddLineBefore ==
    /\ pc = "expand"
    /\ expandLoopCondition(editor.document, importantRange)
    /\ addLineBefore /\ importantRange.start.line # 0
    /\ requestedLines' = requestedLines \cup {importantRange.start.line - 1}
    /\ importantRange' = addLineAbove(editor.document, importantRange)
    /\ addLineBefore' = FALSE
    /\ expandSteps' = expandSteps + 1
    /\ UNCHANGED <<editor, finderNames, pc, error, names, simpleNames,
                   simpleNamesWasLonger, usedFullyQualifiedNames,
                   fqnsWasLonger, codeBlock, extendedCodeBlockRange, result,
                   trimInput, trimSteps, expandInput>>

\* an iteration taking the second branch, lines 94-101
ExpandAddLineAfter ==
    /\ pc = "expand"
    /\ expandLoopCondition(editor.document, importantRange)
    /\ ~(addLineBefore /\ importantRange.start.line # 0)
    /\ importantRange.end.line + 1 < lineCount(editor.document)
    /\ requestedLines' = requestedLines \cup {importantRange.end.line + 1}
    /\ importantRange' = addLineBelow(editor.document, importantRange)
    /\ addLineBefore' = TRUE
    /\ expandSteps' = expandSteps + 1
    /\ UNCHANGED <<editor, finderNames, pc, error, names, simpleNames,
                   simpleNamesWasLonger, usedFullyQualifiedNames,
                   fqnsWasLonger, codeBlock, extendedCodeBlockRange, result,
                   trimInput, trimSteps, expandInput>>

\* the second branch when document.lineAt is given a line the document
\* does not have: lineAt throws, and extract rejects
ExpandLineAtThrows ==
    /\ pc = "expand"
    /\ expandLoopCondition(editor.document, importantRange)
    /\ ~(addLineBefore /\ importantRange.start.line # 0)
    /\ ~(importantRange.end.line + 1 < lineCount(editor.document))
    /\ requestedLines' = requestedLines \cup {importantRange.end.line + 1}
    /\ error' = "IllegalLine"
    /\ pc' = "rejected"
    /\ UNCHANGED <<editor, finderNames, importantRange, names, simpleNames,
                   simpleNamesWasLonger, usedFullyQualifiedNames,
                   fqnsWasLonger, addLineBefore, codeBlock,
                   extendedCodeBlockRange, result, trimInput, trimSteps,
                   expandInput, expandSteps>>

\* the loop's exit, line 104
ExpandReturn ==
    /\ pc = "expand"
    /\ ~expandLoopCondition(editor.document, importantRange)
    /\ extendedCodeBlockRange' = importantRange
    /\ pc' = "assemble"
    /\ UNCHANGED <<editor, finderNames, error, importantRange, names,
                   simpleNames, simpleNamesWasLonger, usedFullyQualifiedNames,
                   fqnsWasLonger, addLineBefore, codeBlock, result, trimInput,
                   trimSteps, expandInput, expandSteps, requestedLines>>

\* lines 38-55
ExtractReturn ==
    /\ pc = "assemble"
    /\ simpleNames' = withFallback(simpleNames, usedFullyQualifiedNames, codeBlock)
    /\ result' =
         [tag |-> "context",
          extendedCodeBlock |-> getRangeText(editor.document, extendedCodeBlockRange),
          codeBlock |-> codeBlock,
          selectionInsideExtendedCodeBlock |->
              getSelectionInsideExtendedCodeBlock(editor.selection,
                                                  extendedCodeBlockRange),
          names |-> [simpleNames |-> simpleNames',
                     fullyQualifiedNames |-> [used |-> usedFullyQualifiedNames]]]
    /\ pc' = "returned"
    /\ UNCHANGED <<editor, finderNames, error, importantRange, names,
                   simpleNamesWasLonger, usedFullyQualifiedNames,
                   fqnsWasLonger, addLineBefore, codeBlock,
                   extendedCodeBlockRange, trimInput, trimSteps, expandInput,
                   expandSteps, requestedLines>>

Next ==
    \/ ExtractNoDocument
    \/ ExtractFindNames
    \/ ExtractPrepareSimpleNames
    \/ ExtractPrepareFqns
    \/ TrimLoop
    \/ TrimReturn
    \/ ExpandAddLineBefore
    \/ ExpandAddLineAfter
    \/ ExpandLineAtThrows
    \/ ExpandReturn
    \/ ExtractReturn

Spec == Init /\ [][Next]_vars

-----------------------------------------------------------------------------
(* What the claims speak of *)

HasDocument == ~IsUndefined(editor.document)

\* trimRangeAccordingToLimits has returned
Trimmed ==
    /\ HasDocument
    /\ \/ pc \in {"expand", "assemble", "returned"}
       \/ pc = "rejected" /\ error = "IllegalLine"

\* the range trimRangeAccordingToLimits returned
trimmedRange == expandInput

\* prepareSimpleNames and prepareFqns have returned
Prepared == (HasDocument /\ pc = "trim") \/ Trimmed

ContextReturned == pc = "returned" /\ HasDocument

HasNameLists == ~IsUndefined(names) /\ "simple" \in DOMAIN names

Elements(list) == {list[i] : i \in 1..Len(list)}

NoDuplicates(list) ==
    \A i, j \in 1..Len(list) : i # j => list[i] # list[j]

\* the symbols the finder gave, used before declared
AllSymbols == names.simple.usedSymbols \o names.simple.declaredSymbols

\* the trimmed symbols of 2..128 characters
PassingNames ==
    {trim(e.symbol) : e \in {x \in Elements(AllSymbols) :
        Len(trim(x.symbol)) >= 2 /\ Len(trim(x.symbol)) <= 128}}

PassingCount ==
    Cardinality({i \in 1..Len(AllSymbols) :
        Len(trim(AllSymbols[i].symbol)) >= 2
        /\ Len(trim(AllSymbols[i].symbol)) <= 128})

GivenFqns == names.fullyQualified.usedSymbols

FirstIndex(list, x) == CHOOSE i \in 1..Len(list) :
    list[i] = x /\ \A j \in 1..(i - 1) : list[j] # x

-----------------------------------------------------------------------------
(* The range loops *)

\* C1: getExtendedCodeBlockRange ends (within lineCount iterations), never
\* passes document.lineAt a line outside [0, lineCount), and returns a range
\* whose text has at least focusAreaCharLimit characters or that spans line 0
\* through line lineCount - 1.
C1_ExpandStaysInsideTheDocument ==
    HasDocument =>
        /\ requestedLines \subseteq 0..(lineCount(editor.document) - 1)
        /\ expandSteps <= lineCount(editor.document)
        /\ pc \in {"assemble", "returned"} =>
              \/ length(getRangeText(editor.document, extendedCodeBlockRange))
                     >= focusAreaCharLimit
              \/ /\ extendedCodeBlockRange.start.line = 0
                 /\ extendedCodeBlockRange.end.line
                        = lineCount(editor.document) - 1

\* C3: trimRangeAccordingToLimits ends (within lineCount + 1 iterations) and
\* returns a range whose text has at most focusAreaCharLimit characters,
\* unless the range is a single point or its end is on line 0.
C3_TrimReturnsWithinLimit ==
    HasDocument =>
        /\ trimSteps <= lineCount(editor.document) + 1
        /\ Trimmed =>
              \/ length(getRangeText(editor.document, trimmedRange))
                     <= focusAreaCharLimit
              \/ trimmedRange.start = trimmedRange.end
              \/ trimmedRange.end.line = 0

\* a range of several lines that took two iterations to fit the limit
C3_Witness ==
    /\ pc = "expand"
    /\ trimSteps >= 2
    /\ trimmedRange.start # trimmedRange.end
    /\ trimmedRange.end.line # 0
    /\ length(getRangeText(editor.document, trimInput)) > focusAreaCharLimit
    /\ length(getRangeText(editor.document, trimmedRange)) <= focusAreaCharLimit

\* C4: the range trimRangeAccordingToLimits returns starts where the range
\* it was given starts.
C4_TrimKeepsTheStart ==
    Trimmed => trimmedRange.start = trimInput.start

\* while there are lines above: after n iterations the start is
\* (n + 1) \div 2 lines up and the end n \div 2 lines down
C5_Alternates ==
    (pc = "expand" /\ expandSteps <= 2 * expandInput.start.line) =>
        /\ importantRange.start.line
               = expandInput.start.line - ((expandSteps + 1) \div 2)
        /\ importantRange.end.line = expandInput.end.line + (expandSteps \div 2)
        /\ addLineBefore = (expandSteps % 2 = 0)

\* an iteration from a range that starts on line 0
C5_AtTheTopGoesDown ==
    (/\ pc = "expand" /\ pc' = "expand"
     /\ expandSteps' = expandSteps + 1
     /\ addLineBefore
     /\ importantRange.start.line = 0) =>
        /\ importantRange'.start = importantRange.start
        /\ importantRange'.end.line = importantRange.end.line + 1
        /\ addLineBefore'

\* C5: while there are lines above, the iterations of
\* getExtendedCodeBlockRange alternate, the line above first: after 2k
\* iterations the start is k lines up and the end k lines down.  From a
\* range that starts on line 0, an iteration that prefers the line above
\* adds the line below and leaves the preference on the line above.
C5_ExpandAlternatesStartingUpward ==
    [](C5_Alternates) /\ [][C5_AtTheTopGoesDown]_vars

\* four iterations from the middle of a document: two lines up, two down
C5_Witness ==
    /\ pc = "expand"
    /\ expandSteps = 4
    /\ importantRange.start.line = expandInput.start.line - 2
    /\ importantRange.end.line = expandInput.end.line + 2

\* one iteration of getExtendedCodeBlockRange, by the branch it takes
C10_Step ==
    (pc = "expand" /\ pc' = "expand" /\ expandSteps' = expandSteps + 1) =>
        IF addLineBefore /\ importantRange.start.line # 0
        THEN /\ importantRange'.start
                    = Position(importantRange.start.line - 1, 0)
             /\ importantRange'.end = importantRange.end
        ELSE /\ importantRange'.start = importantRange.start
             /\ importantRange'.end
                    = Position(importantRange.end.line + 1,
                               lineEndCharacter(editor.document,
                                                importantRange.end.line + 1))

\* C10: an iteration of getExtendedCodeBlockRange that adds the line above
\* moves the start to character 0 of the previous line and leaves the end;
\* one that adds the line below moves the end to the end of the following
\* line and leaves the start.
C10_ExpandAddsWholeLines == [][C10_Step]_vars

-----------------------------------------------------------------------------
(* The name lists *)

\* C2: with a language identifier that has no name finder, extract does not
\* fail on the names: both lists are empty and the context returned has
\* simpleNames = [codeBlock] and no fully qualified names.
C2_UnsupportedLanguageFindsNoNames ==
    (HasDocument /\ editor.document.languageId \notin SupportedLanguages) =>
        /\ error # "TypeError"
        /\ pc = "returned" =>
              /\ result.names.simpleNames = <<result.codeBlock>>
              /\ result.names.fullyQualifiedNames.used = <<>>

\* C6: prepareFqns returns the distinct (source, symbol) pairs it is given,
\* no pair twice and at most maxUsedFullyQualifiedNamesLength of them: all
\* of them in first-seen order with flag false when they are at most that
\* many, else that many with flag true, none longer (source.length +
\* symbol.length) than a pair left out.
C6_FqnsDedupedKeepingShortest ==
    /\ (Prepared /\ IsUndefined(names)) =>
          usedFullyQualifiedNames = <<>> /\ ~fqnsWasLonger
    /\ (Prepared /\ HasNameLists) =>
          LET out == usedFullyQualifiedNames
              pairs == Elements(GivenFqns)
          IN  /\ NoDuplicates(out)
              /\ Len(out) <= maxUsedFullyQualifiedNamesLength
              /\ Elements(out) \subseteq pairs
              /\ Cardinality(pairs) <= maxUsedFullyQualifiedNamesLength =>
                    /\ ~fqnsWasLonger
                    /\ Elements(out) = pairs
                    /\ \A i, j \in 1..Len(out) :
                          i < j => FirstIndex(GivenFqns, out[i])
                                       < FirstIndex(GivenFqns, out[j])
              /\ Cardinality(pairs) > maxUsedFullyQualifiedNamesLength =>
                    /\ fqnsWasLonger
                    /\ Len(out) = maxUsedFullyQualifiedNamesLength
                    /\ \A kept \in Elements(out) :
                          \A dropped \in pairs \ Elements(out) :
                              combinedLength(kept) <= combinedLength(dropped)

\* more than the cap of pairs, of distinct combined lengths, some given twice
C6_Witness ==
    /\ Prepared /\ HasNameLists
    /\ fqnsWasLonger
    /\ Len(usedFullyQualifiedNames) = maxUsedFullyQualifiedNamesLength
    /\ Len(GivenFqns) > Cardinality(Elements(GivenFqns))
    /\ Cardinality({combinedLength(x) : x \in Elements(GivenFqns)})
           = Cardinality(Elements(GivenFqns))

\* C7: prepareSimpleNames returns at most maxSimpleNamesLength names; when
\* more than that many distinct names pass the length filter it returns
\* that many of them with flag true, no name twice and none shorter than a
\* name left out.
C7_SimpleNamesCappedKeepingLongest ==
    /\ Prepared => Len(simpleNames) <= maxSimpleNamesLength
    /\ (Prepared /\ HasNameLists
            /\ Cardinality(PassingNames) > maxSimpleNamesLength) =>
          /\ simpleNamesWasLonger
          /\ Len(simpleNames) = maxSimpleNamesLength
          /\ NoDuplicates(simpleNames)
          /\ Elements(simpleNames) \subseteq PassingNames
          /\ \A kept \in Elements(simpleNames) :
                \A dropped \in PassingNames \ Elements(simpleNames) :
                    Len(kept) >= Len(dropped)

\* more than the cap of distinct names, of distinct lengths
C7_Witness ==
    /\ Prepared /\ HasNameLists
    /\ simpleNamesWasLonger
    /\ Len(simpleNames) = maxSimpleNamesLength
    /\ Cardinality(PassingNames) > maxSimpleNamesLength
    /\ Cardinality({Len(x) : x \in PassingNames}) = Cardinality(PassingNames)

\* C8, as claimed: no name occurs twice in the simpleNames of a context
\* extract returns.
C8_SimpleNamesDeduplicated ==
    ContextReturned => NoDuplicates(result.names.simpleNames)

\* C8, amended: no name occurs twice in the simpleNames of a context extract
\* returns when more than maxSimpleNamesLength symbols passed the length
\* filter.
C8_SimpleNamesDeduplicatedAboveTheCap ==
    (ContextReturned /\ HasNameLists /\ PassingCount > maxSimpleNamesLength) =>
        NoDuplicates(result.names.simpleNames)

\* more symbols than the cap passed the filter, some of them twice
C8_Witness ==
    /\ ContextReturned /\ HasNameLists
    /\ PassingCount > maxSimpleNamesLength
    /\ PassingCount > Cardinality(PassingNames)
    /\ Len(result.names.simpleNames) = Cardinality(PassingNames)

\* the finder found no symbol that passes the length filter
NoSimpleNames == IsUndefined(names) \/ PassingCount = 0

\* the finder found no fully qualified name
NoFqns == IsUndefined(names) \/ GivenFqns = <<>>

\* the step of extract that returns the context
C9_Step ==
    (pc = "assemble" /\ pc' = "returned") =>
        /\ result'.codeBlock = getRangeText(editor.document, trimmedRange)
        /\ result'.names.simpleNames =
              IF NoSimpleNames /\ NoFqns
              THEN <<getRangeText(editor.document, trimmedRange)>>
              ELSE simpleNames

\* C9: the step that returns the context leaves simpleNames as
\* prepareSimpleNames gave it, unless no symbol passed the length filter
\* and no fully qualified name was found: then simpleNames is the text of
\* the trimmed range (codeBlock) alone.
C9_FallbackIsTheTrimmedCodeBlock == [][C9_Step]_vars

\* the fallback taken with a code block shorter than the range it was
\* trimmed from and than the extended block
C9_Witness ==
    /\ ContextReturned
    /\ NoSimpleNames /\ NoFqns
    /\ trimSteps > 0
    /\ result.codeBlock # result.extendedCodeBlock
    /\ result.names.simpleNames = <<result.codeBlock>>

====
